---- MODULE Spec2Model ----
(***************************************************************************)
(* FastCSSSplitWebpackPlugin (src/lib/index.js): the constructor, apply    *)
(* and chunksMapping, the manifest rewriter that splits the stylesheet     *)
(* assets of every chunk and rewires compilation.assets and chunk.files.   *)
(*                                                                         *)
(* A JavaScript string is a sequence of tokens ("sub/styles.css" is        *)
(* <<"sub", "/", "styles", ".", "css">>), so that concatenation, the       *)
(* regular expressions and the name interpolation are computed, not        *)
(* assumed.  The content of a stylesheet is the sequence of its top-level  *)
(* rules, each rule a sequence of tokens; a generated import list is the   *)
(* sequence of its lines (the '\n'-joined statements).                     *)
(***************************************************************************)
EXTENDS Integers, Sequences, FiniteSets, TLC

VARIABLES
    pc,               \* position of the program
    options,          \* this.options of the plugin instance
    hook,             \* the compiler hook the callback is registered on
    assets,           \* compilation.assets: name -> Source
    chunks,           \* chunks[c] is chunk.files of the c-th chunk
    outputPublicPath, \* compilation.options.output.publicPath
    ci,               \* chunks.map: index of the chunk being processed
    entries,          \* entries of the chunk being processed
    ei,               \* entries.forEach: index of the entry being processed
    pi,               \* entry.chunks.forEach: index of the part being injected
    importsFile,      \* the local importsFile of the entry being processed
    doneCalls,        \* number of calls of the completion callback
    log,              \* history: the entries met and the writes made, in order
    before,           \* history: the assets and the file lists before the call
    given             \* history: the object handed to the constructor

vars == <<pc, options, hook, assets, chunks, outputPublicPath, ci, entries,
          ei, pi, importsFile, doneCalls, log, before, given>>

----------------------------------------------------------------------------
(* Bounds of the model. *)

\* at most this many chunks in the compilation
MaxChunks == 2
\* at most this many file-list entries in the whole compilation
MaxFiles == 2
\* the size option ranges over 1..MaxSize
MaxSize == 2

----------------------------------------------------------------------------
(* Strings. *)

Min(a, b) == IF a < b THEN a ELSE b

Max(a, b) == IF a < b THEN b ELSE a

\* 1-based position of the last occurrence of tok in s, 0 when there is none
LastPos(s, tok) ==
    LET hits == {i \in 1..Len(s) : s[i] = tok}
    IN  IF hits = {} THEN 0 ELSE CHOOSE i \in hits : \A j \in hits : j <= i

\* String.prototype.replace(/tok/g, repl) for a one-token pattern
RECURSIVE ReplaceAll(_, _, _)
ReplaceAll(s, tok, repl) ==
    IF s = <<>> THEN <<>>
    ELSE (IF Head(s) = tok THEN repl ELSE <<Head(s)>>)
             \o ReplaceAll(Tail(s), tok, repl)

\* String.prototype.startsWith('.')
StartsWithDot(s) == Len(s) > 0 /\ s[1] \in {".", ".."}

\* IndexOf counting from 1, as a TLA+ sequence does
IndexOfOneBased(s, x) ==
    LET hits == {i \in 1..Len(s) : s[i] = x}
    IN  IF hits = {} THEN 0 - 1
        ELSE CHOOSE i \in hits : \A j \in hits : i <= j

\* Array.prototype.indexOf: 0-based, -1 when x is no element of s
IndexOf(s, x) ==
    LET hits == {i \in 1..Len(s) : s[i] = x}
    IN  IF hits = {} THEN 0 - 1
        ELSE (CHOOSE i \in hits : \A j \in hits : i <= j) - 1

\* Array.prototype.splice(start, 1): a negative start counts from the end
Splice(s, start) ==
    LET from == IF start < 0 THEN Max(Len(s) + start, 0) ELSE Min(start, Len(s))
    IN  SubSeq(s, 1, from) \o SubSeq(s, from + 2, Len(s))

\* path.dirname: "." for a name without a directory
Dirname(key) ==
    IF LastPos(key, "/") = 0 THEN <<".">>
    ELSE SubSeq(key, 1, LastPos(key, "/") - 1)

\* path.basename
Basename(key) == SubSeq(key, LastPos(key, "/") + 1, Len(key))

isCSS(name) ==
    Len(name) >= 2 /\ name[Len(name) - 1] = "." /\ name[Len(name)] = "css"

\* strip leaving the trailing slash in place
stripNothing(str) == str

strip(str) ==
    IF Len(str) > 0 /\ str[Len(str)] = "/" THEN SubSeq(str, 1, Len(str) - 1)
    ELSE str

----------------------------------------------------------------------------
(* Sources. *)

\* new RawSource(value); name and fullname are set on split parts only
RawSource(value) ==
    [cls |-> "RawSource", value |-> value, map |-> FALSE,
     name |-> <<>>, fullname |-> <<>>]

\* a value that stands for "no Source" (an unset local)
NoSource ==
    [cls |-> "none", value |-> <<>>, map |-> FALSE,
     name |-> <<>>, fullname |-> <<>>]

----------------------------------------------------------------------------
(* JavaScript values handed to the constructor. *)

JSUndefined == [type |-> "undefined", str |-> <<>>, bool |-> FALSE, num |-> 0]

JSBool(b) == [type |-> "boolean", str |-> <<>>, bool |-> b, num |-> 0]

JSString(s) == [type |-> "string", str |-> s, bool |-> FALSE, num |-> 0]

JSNumber(n) == [type |-> "number", str |-> <<>>, bool |-> FALSE, num |-> n]

JSFunction == [type |-> "function", str |-> <<>>, bool |-> FALSE, num |-> 0]

\* null: typeof null is 'object'
JSNull == [type |-> "object", str |-> <<>>, bool |-> FALSE, num |-> 0]

\* ToBoolean
Truthy(v) ==
    \/ v.type = "boolean" /\ v.bool
    \/ v.type = "string" /\ v.str # <<>>
    \/ v.type = "number" /\ v.num # 0
    \/ v.type = "function"

----------------------------------------------------------------------------
(* Name interpolation. *)

\* the default of the size option
DefaultSize == 4000

\* the default of the filename option
DefaultFilename == <<"[name]", "-", "[part]", ".", "[ext]">>

\* the default imports name when the original is preserved
SplitFilename == <<"[name]", "-", "split", ".", "[ext]">>

\* loader-utils interpolateName with context '/': [name] is the basename
\* without its extension, [ext] the extension without its dot
interpolateName(resourcePath, name) ==
    LET base == Basename(resourcePath)
        dot  == LastPos(base, ".")
        stem == IF dot = 0 THEN base ELSE SubSeq(base, 1, dot - 1)
        ext  == IF dot = 0 THEN <<"bin">> ELSE SubSeq(base, dot + 1, Len(base))
    IN  ReplaceAll(ReplaceAll(name, "[name]", stem), "[ext]", ext)

\* index + 1 as the replacement string: index is <<i>>, or <<>> when the
\* argument object has no index (undefined + 1 is NaN)
IndexPlusOne(index) ==
    IF index = <<>> THEN "NaN" ELSE ToString(index[1] + 1)

\* the closures the plugin stores in its options
nameInterpolator(input) == [kind |-> "nameInterpolator", input |-> input]

FileName == [kind |-> "file", input |-> <<>>]

ReturnFalse == [kind |-> "false", input |-> <<>>]

Thrown == [kind |-> "TypeError", input |-> <<>>]

\* the call fn({file, content, index}); the empty string stands for false
\* (both are falsy, and only the truthiness of a falsy result is read)
Call(fn, file, index) ==
    CASE fn.kind = "nameInterpolator" ->
            ReplaceAll(interpolateName(<<"/">> \o file, fn.input),
                       "[part]", <<IndexPlusOne(index)>>)
      [] fn.kind = "file" -> file
      [] OTHER -> <<>>

\* normalizeImports treating false like true
normalizeImportsAnyBoolean(input, preserve) ==
    CASE input.type = "string" -> nameInterpolator(input.str)
      [] input.type = "boolean" ->
            IF Truthy(preserve) THEN nameInterpolator(SplitFilename)
            ELSE FileName
      [] OTHER -> Thrown

\* normalizeImports without its default case
normalizeImportsNoThrow(input, preserve) ==
    CASE input.type = "string" -> nameInterpolator(input.str)
      [] input.type = "boolean" ->
            IF input.bool
            THEN IF Truthy(preserve) THEN nameInterpolator(SplitFilename)
                 ELSE FileName
            ELSE ReturnFalse
      [] OTHER -> ReturnFalse

normalizeImports(input, preserve) ==
    CASE input.type = "string" -> nameInterpolator(input.str)
      [] input.type = "boolean" ->
            IF input.bool
            THEN IF Truthy(preserve) THEN nameInterpolator(SplitFilename)
                 ELSE FileName
            ELSE ReturnFalse
      [] OTHER -> Thrown

\* a destructuring default: used when the property is undefined
Default(v, d) == IF v.type = "undefined" THEN d ELSE v

----------------------------------------------------------------------------
(* Splitting one asset. *)

\* css-split: the rules in source order, size rules to a part, at least
\* one part
split(source, size) ==
    LET n == Len(source)
        k == IF n = 0 THEN 1 ELSE (n + size - 1) \div size
    IN  [i \in 1..k |-> SubSeq(source, (i - 1) * size + 1, Min(i * size, n))]

\* result.fullname
Fullname(dirname, name) ==
    IF dirname # <<>> /\ dirname # <<".">> THEN dirname \o <<"/">> \o name
    ELSE name

\* this.file(key, asset) for an asset that exists
file(key, asset) ==
    LET source  == asset.value
        dirname == Dirname(key)
        parts   == split(source, options.size)
        getName(i) == Call(options.filename, key, <<i>>)
    IN  [dirname |-> dirname,
         file    |-> key,
         chunks  |-> [i \in 1..Len(parts) |->
                        [RawSource(parts[i]) EXCEPT
                            !.name = getName(i - 1),
                            !.fullname = Fullname(dirname, getName(i - 1))]]]

\* compilation.options.output.publicPath || './', stripped
publicPath ==
    strip(IF outputPublicPath = <<>> THEN <<".", "/">> ELSE outputPublicPath)

\* one statement of the imports file
ImportStatement(part, base) ==
    IF StartsWithDot(base)
    THEN <<"@import \"", ".", "/">> \o part.name \o <<"\";">>
    ELSE <<"@import \"">> \o base \o <<"/">> \o part.fullname \o <<"\";">>

\* the content of the imports file of an entry
ImportsContent(entry) ==
    [i \in 1..Len(entry.chunks) |-> ImportStatement(entry.chunks[i], publicPath)]

\* the guard without its test of preserve
ShouldRemoveIgnoringPreserve(entry) == Len(entry.chunks) > 1

\* the guard without its test of the number of parts
ShouldRemoveUnsplit(entry) == ~Truthy(options.preserve)

\* the guard of the removal of the original
ShouldRemove(entry) ==
    Len(entry.chunks) > 1 /\ ~Truthy(options.preserve)

----------------------------------------------------------------------------
(* The compilations and the option objects the model ranges over. *)

STYLES == <<"styles", ".", "css">>

SUB_STYLES == <<"sub", "/", "styles", ".", "css">>

STYLES_1 == <<"styles", "-", "1", ".", "css">>

BUNDLE == <<"bundle", ".", "js">>

FileNames == {STYLES, SUB_STYLES, STYLES_1, BUNDLE}

\* the text of the asset the build produced under a name: three rules in
\* styles.css, two in the other stylesheets, every rule tagged with the
\* name it comes from
OriginalValue(name) ==
    LET n == IF name = STYLES THEN 3 ELSE IF isCSS(name) THEN 2 ELSE 1
    IN  [i \in 1..n |-> name \o <<"#", ToString(i)>>]

\* the Source the build registered under a name; it carries a source map
OriginalSource(name) ==
    [cls |-> "SourceMapSource", value |-> OriginalValue(name), map |-> TRUE,
     name |-> <<>>, fullname |-> <<>>]

RECURSIVE TotalLen(_)
TotalLen(m) == IF m = <<>> THEN 0 ELSE Len(Head(m)) + TotalLen(Tail(m))

\* chunk.files of one chunk: a chunk lists at least one file
FileLists == UNION {[1..n -> FileNames] : n \in 1..MaxFiles}

Manifests ==
    {m \in UNION {[1..k -> FileLists] : k \in 0..MaxChunks} :
        TotalLen(m) <= MaxFiles}

Referenced(m) == UNION {{m[c][i] : i \in DOMAIN m[c]} : c \in DOMAIN m}

\* output.publicPath: unset, or '/foo/'
PublicPaths == {<<>>, <<"/", "foo", "/">>}

Potato == <<"potato", ".", "css">>

\* a template without [part]: it yields the basename of the original
SameFilename == <<"[name]", ".", "[ext]">>

\* the imports option: omitted, a boolean, a name, a template, or a value
\* of another type
ImportsInputs ==
    {JSUndefined, JSBool(FALSE), JSBool(TRUE), JSString(Potato),
     JSString(SameFilename), JSFunction, JSNull}

FilenameInputs == {JSUndefined, JSString(SameFilename)}

\* the size option: unset, or a number
SizeInputs == {JSUndefined} \cup {JSNumber(n) : n \in 1..MaxSize}

PreserveInputs == {JSUndefined, JSBool(TRUE)}

DeferInputs == {JSUndefined, JSBool(TRUE)}

NoGiven ==
    [size |-> JSUndefined, imports |-> JSUndefined, filename |-> JSUndefined,
     preserve |-> JSUndefined, defer |-> JSUndefined]

NoOptions ==
    [size |-> 0, imports |-> Thrown, filename |-> Thrown,
     preserve |-> JSUndefined, defer |-> JSUndefined]

----------------------------------------------------------------------------
(* The state machine. *)

Put(f, k, v) == [x \in DOMAIN f \cup {k} |-> IF x = k THEN v ELSE f[x]]

\* delete that leaves the property in place
DeleteNothing(f, k) == f

Delete(f, k) == [x \in DOMAIN f \ {k} |-> f[x]]

Event(op, entry, key, src) ==
    [op |-> op, chunk |-> ci, file |-> entry.file, n |-> Len(entry.chunks),
     key |-> key, src |-> src]

Init ==
    /\ pc = "new"
    /\ options = NoOptions
    /\ hook = "none"
    /\ chunks \in Manifests
    /\ assets = [n \in Referenced(chunks) |-> OriginalSource(n)]
    /\ outputPublicPath \in PublicPaths
    /\ ci = 0
    /\ entries = <<>>
    /\ ei = 0
    /\ pi = 0
    /\ importsFile = NoSource
    /\ doneCalls = 0
    /\ log = <<>>
    /\ before = [assets |-> assets, chunks |-> chunks]
    /\ given = NoGiven

\* new FastCSSSplitWebpackPlugin({size, imports, filename, preserve, defer})
constructor(size, imports, filename, preserve, defer) ==
    /\ pc = "new"
    /\ given' = [size |-> size, imports |-> imports, filename |-> filename,
                 preserve |-> preserve, defer |-> defer]
    /\ UNCHANGED before
    /\ LET imp == normalizeImports(Default(imports, JSBool(FALSE)), preserve)
       IN  IF imp = Thrown
           THEN /\ pc' = "threw"
                /\ UNCHANGED options
           ELSE /\ pc' = "constructed"
                /\ options' =
                     [size     |-> Default(size, JSNumber(DefaultSize)).num,
                      imports  |-> imp,
                      filename |-> nameInterpolator(
                                     Default(filename, JSString(DefaultFilename)).str),
                      preserve |-> preserve,
                      defer    |-> Default(defer, JSBool(FALSE))]
    /\ UNCHANGED <<hook, assets, chunks, outputPublicPath, ci, entries, ei, pi,
                   importsFile, doneCalls, log>>

\* plugin.apply(compiler): the callback is registered on one phase; the
\* compiler.hooks branch and the compiler.plugin branch register the same
\* callback on the same phase
apply ==
    /\ UNCHANGED <<before, given>>
    /\ pc = "constructed"
    /\ hook' = IF Truthy(options.defer) THEN "emit" ELSE "optimize-chunk-assets"
    /\ pc' = "applied"
    /\ UNCHANGED <<options, assets, chunks, outputPublicPath, ci, entries, ei,
                   pi, importsFile, doneCalls, log>>

\* the compiler fires the hook: chunksMapping(compilation, chunks, done)
chunksMapping ==
    /\ UNCHANGED <<before, given>>
    /\ pc = "applied"
    /\ ci' = 1
    /\ pc' = "chunk"
    /\ UNCHANGED <<options, hook, assets, chunks, outputPublicPath, entries,
                   ei, pi, importsFile, doneCalls, log>>

\* chunks.map: the stylesheets of the chunk are listed and every one is
\* split before any of them is rewired; a name without an asset throws
ChunkBegin ==
    /\ UNCHANGED <<before, given>>
    /\ pc = "chunk"
    /\ ci <= Len(chunks)
    /\ LET input == SelectSeq(chunks[ci], isCSS)
       IN  IF \E i \in 1..Len(input) : input[i] \notin DOMAIN assets
           THEN /\ pc' = "crashed"
                /\ UNCHANGED <<entries, ei>>
           ELSE /\ entries' = [i \in 1..Len(input) |->
                                 file(input[i], assets[input[i]])]
                /\ ei' = 1
                /\ pc' = "entry"
    /\ UNCHANGED <<options, hook, assets, chunks, outputPublicPath, ci, pi,
                   importsFile, doneCalls, log>>

\* entries.forEach: the next entry; an unsplit entry is its own imports file
EntryBegin ==
    /\ UNCHANGED <<before, given>>
    /\ pc = "entry"
    /\ ei <= Len(entries)
    /\ LET entry == entries[ei]
       IN  /\ log' = Append(log, Event("entry", entry, <<>>, NoSource))
           /\ IF Len(entry.chunks) = 1
              THEN /\ importsFile' = entry.chunks[1]
                   /\ pc' = "remove"
                   /\ pi' = 0
              ELSE /\ importsFile' = NoSource
                   /\ pc' = "inject"
                   /\ pi' = 1
    /\ UNCHANGED <<options, hook, assets, chunks, outputPublicPath, ci,
                   entries, ei, doneCalls>>

\* entry.chunks.forEach: one part is registered and pushed
Inject ==
    /\ UNCHANGED <<before, given>>
    /\ pc = "inject"
    /\ LET entry == entries[ei]
           part  == entry.chunks[pi]
       IN  /\ assets' = Put(assets, part.fullname, part)
           /\ chunks' = [chunks EXCEPT ![ci] = Append(@, part.fullname)]
           /\ log' = Append(log, Event("part", entry, part.fullname, part))
           /\ IF pi = Len(entry.chunks)
              THEN pc' = "content" /\ pi' = 0
              ELSE pc' = "inject" /\ pi' = pi + 1
    /\ UNCHANGED <<options, hook, outputPublicPath, ci, entries, ei,
                   importsFile, doneCalls>>

\* the imports file of a split entry
Content ==
    /\ UNCHANGED <<before, given>>
    /\ pc = "content"
    /\ importsFile' = RawSource(ImportsContent(entries[ei]))
    /\ pc' = "remove"
    /\ UNCHANGED <<options, hook, assets, chunks, outputPublicPath, ci,
                   entries, ei, pi, doneCalls, log>>

\* the original is spliced out of chunk.files and deleted from the assets
Remove ==
    /\ UNCHANGED <<before, given>>
    /\ pc = "remove"
    /\ LET entry == entries[ei]
       IN  IF ShouldRemove(entry)
           THEN /\ chunks' = [chunks EXCEPT ![ci] =
                                Splice(@, IndexOf(@, entry.file))]
                /\ assets' = Delete(assets, entry.file)
                /\ log' = Append(log, Event("remove", entry, entry.file, NoSource))
           ELSE UNCHANGED <<chunks, assets, log>>
    /\ pc' = "imports"
    /\ UNCHANGED <<options, hook, outputPublicPath, ci, entries, ei, pi,
                   importsFile, doneCalls>>

\* the imports file is registered under the name options.imports gives
Imports ==
    /\ UNCHANGED <<before, given>>
    /\ pc = "imports"
    /\ LET entry   == entries[ei]
           imports == Call(options.imports, entry.file, <<>>)
           dest    == Fullname(entry.dirname, imports)
       IN  IF imports # <<>>
           THEN /\ assets' = Put(assets, dest, importsFile)
                /\ chunks' = [chunks EXCEPT ![ci] = Append(@, dest)]
                /\ log' = Append(log, Event("imports", entry, dest, importsFile))
           ELSE UNCHANGED <<chunks, assets, log>>
    /\ ei' = ei + 1
    /\ importsFile' = NoSource
    /\ pc' = "entry"
    /\ UNCHANGED <<options, hook, outputPublicPath, ci, entries, pi, doneCalls>>

\* the entries of the chunk are exhausted
ChunkEnd ==
    /\ UNCHANGED <<before, given>>
    /\ pc = "entry"
    /\ ei > Len(entries)
    /\ ci' = ci + 1
    /\ entries' = <<>>
    /\ ei' = 0
    /\ pc' = "chunk"
    /\ UNCHANGED <<options, hook, assets, chunks, outputPublicPath, pi,
                   importsFile, doneCalls, log>>

\* done()
Done ==
    /\ UNCHANGED <<before, given>>
    /\ pc = "chunk"
    /\ ci > Len(chunks)
    /\ doneCalls' = doneCalls + 1
    /\ pc' = "returned"
    /\ UNCHANGED <<options, hook, assets, chunks, outputPublicPath, ci,
                   entries, ei, pi, importsFile, log>>

Construct ==
    \E size \in SizeInputs, imports \in ImportsInputs,
       filename \in FilenameInputs, preserve \in PreserveInputs,
       defer \in DeferInputs :
        constructor(size, imports, filename, preserve, defer)

Next ==
    \/ Construct
    \/ apply
    \/ chunksMapping
    \/ ChunkBegin
    \/ EntryBegin
    \/ Inject
    \/ Content
    \/ Remove
    \/ Imports
    \/ ChunkEnd
    \/ Done

Spec == Init /\ [][Next]_vars

----------------------------------------------------------------------------
(* Vocabulary of the properties. *)

Range(s) == {s[i] : i \in DOMAIN s}

Count(s, x) == Cardinality({i \in DOMAIN s : s[i] = x})

Returned == pc = "returned"

Preserve == Truthy(given.preserve)

ImportsDisabled == given.imports \in {JSUndefined, JSBool(FALSE)}

\* the stylesheet names chunk c listed before the call
Stylesheets(c) ==
    {x \in Range(before.chunks[c]) :
        Len(x) >= 2 /\ SubSeq(x, Len(x) - 1, Len(x)) = <<".", "css">>}

\* the rule-count ceiling the constructor was given
SizeGiven ==
    IF given.size.type = "undefined" THEN DefaultSize ELSE given.size.num

\* the number of parts the asset the build registered under x splits into
NumParts(x) ==
    LET rules == Len(before.assets[x].value)
    IN  IF rules % SizeGiven = 0 THEN rules \div SizeGiven
        ELSE rules \div SizeGiven + 1

\* the names written into the asset table during the run
WrittenKeys == {log[i].key : i \in {j \in DOMAIN log : log[j].op \in {"part", "imports"}}}

\* no write or removal of x happened in a chunk processed before chunk c, so
\* that chunk c met x as the build registered it
Untouched(c, x) ==
    \A j \in DOMAIN log :
        log[j].op # "entry" /\ log[j].key = x => log[j].chunk >= c

\* the events of the run that belong to stylesheet x of chunk c
EventsOf(c, x) == {j \in DOMAIN log : log[j].chunk = c /\ log[j].file = x}

\* a text made of import statements only
IsImportList(value) ==
    /\ Len(value) > 0
    /\ \A i \in DOMAIN value : Len(value[i]) > 0 /\ value[i][1] = "@import \""

----------------------------------------------------------------------------
(* C1 *)

\* C1 as stated: with preserve falsy, once chunksMapping has completed, the
\* name of every stylesheet that split into N > 1 parts is no key of the
\* asset table and no element of its chunk's file list, whatever the imports
\* policy.
C1_OriginalAbsent ==
    Returned /\ ~Preserve =>
        \A c \in DOMAIN before.chunks : \A x \in Stylesheets(c) :
            NumParts(x) > 1 /\ Untouched(c, x) =>
                x \notin DOMAIN assets /\ x \notin Range(chunks[c])

\* C1 amended: with preserve falsy, once chunksMapping has completed, the
\* name of every stylesheet that split into N > 1 parts is no key of the
\* asset table and no element of its chunk's file list, unless a part or an
\* aggregation artifact was registered under that very name during the run
\* (as imports=true does for a stylesheet of the output root).
C1_OriginalAbsentUnlessReregistered ==
    Returned /\ ~Preserve =>
        \A c \in DOMAIN before.chunks : \A x \in Stylesheets(c) :
            NumParts(x) > 1 /\ x \notin WrittenKeys =>
                x \notin DOMAIN assets /\ x \notin Range(chunks[c])

C1_Witness ==
    /\ Returned /\ ~Preserve /\ given.imports = JSString(Potato)
    /\ \E c \in DOMAIN before.chunks : \E x \in Stylesheets(c) :
          /\ NumParts(x) > 1 /\ x \notin WrittenKeys
          /\ x \notin DOMAIN assets
          /\ \E j \in EventsOf(c, x) : log[j].op = "remove"

----------------------------------------------------------------------------
(* C2 *)

\* C2 as stated, for a compilation of one chunk that lists one file and
\* under the default part-name template: with preserve=true, once
\* chunksMapping has completed, the stylesheet's name is still a key of the
\* asset table and an element of the chunk's file list and holds the
\* text it held before the call, whatever the imports policy.
C2_OriginalKept ==
    Returned /\ Preserve /\ TotalLen(before.chunks) = 1
             /\ given.filename = JSUndefined =>
        \A c \in DOMAIN before.chunks : \A x \in Stylesheets(c) :
            /\ x \in DOMAIN assets
            /\ assets[x].value = before.assets[x].value
            /\ x \in Range(chunks[c])

\* C2 amended: with preserve=true, once chunksMapping has completed, every
\* stylesheet name of a chunk under which no part and no aggregation
\* artifact was registered during the run is still a key of the asset
\* table, holds the artifact it held before the call, and occurs in the
\* chunk's file list as often as before.
C2_OriginalKeptUnlessOverwritten ==
    Returned /\ Preserve =>
        \A c \in DOMAIN before.chunks : \A x \in Stylesheets(c) :
            x \notin WrittenKeys =>
                /\ x \in DOMAIN assets
                /\ assets[x] = before.assets[x]
                /\ Count(chunks[c], x) = Count(before.chunks[c], x)

C2_Witness ==
    /\ Returned /\ Preserve /\ given.imports = JSBool(TRUE)
    /\ \E c \in DOMAIN before.chunks : \E x \in Stylesheets(c) :
          /\ NumParts(x) > 1 /\ x \notin WrittenKeys
          /\ \E j \in EventsOf(c, x) : log[j].op = "part"
          /\ x \in DOMAIN assets /\ assets[x] = before.assets[x]

----------------------------------------------------------------------------
(* C3 *)

\* C3 as stated, for preserve falsy: under imports=true, for every
\* stylesheet that split into N > 1 parts the generated import list is
\* registered under the stylesheet's own name; once chunksMapping has
\* completed it is the asset table entry under that name and the name is in
\* the chunk's file list (unless a later step of the run rewrote that name).
C3_AggregationUnderOriginalName ==
    Returned /\ given.imports = JSBool(TRUE) /\ ~Preserve =>
        \A c \in DOMAIN before.chunks : \A x \in Stylesheets(c) :
            NumParts(x) > 1 /\ Untouched(c, x) =>
                \E i \in EventsOf(c, x) :
                    /\ log[i].op = "imports"
                    /\ log[i].key = x
                    /\ IsImportList(log[i].src.value)
                    /\ (\A j \in (i + 1)..Len(log) : log[j].key # x) =>
                          /\ x \in DOMAIN assets
                          /\ assets[x] = log[i].src
                          /\ x \in Range(chunks[c])

----------------------------------------------------------------------------
(* C4 *)

\* C4 as stated: for a stylesheet that yields exactly one segment, whatever
\* the configuration, chunksMapping writes nothing: no asset table entry is
\* registered or replaced, nothing is removed and nothing is appended to the
\* chunk's file list on its behalf.
C4_UnsplitUntouched ==
    Returned =>
        \A c \in DOMAIN before.chunks : \A x \in Stylesheets(c) :
            NumParts(x) = 1 /\ Untouched(c, x) =>
                \A j \in EventsOf(c, x) : log[j].op = "entry"

\* C4 amended: for a stylesheet that yields exactly one segment no part is
\* registered and the original is never removed.  With imports disabled
\* nothing at all is written on its behalf, and unless another stylesheet's
\* part took its name the asset table entry is the artifact the build
\* registered (source map included) and the name occurs in the chunk's file
\* list as often as before.  With imports enabled the only write is the
\* aggregation entry: a fresh artifact without source map holding the
\* stylesheet's unchanged text, registered and appended under the name the
\* imports policy yields.
C4_UnsplitOnlyImportsWritten ==
    Returned =>
        \A c \in DOMAIN before.chunks : \A x \in Stylesheets(c) :
            NumParts(x) = 1 /\ Untouched(c, x) =>
                /\ \A j \in EventsOf(c, x) :
                      /\ log[j].op \in {"entry", "imports"}
                      /\ log[j].op = "imports" =>
                            /\ ~ImportsDisabled
                            /\ log[j].src.value = before.assets[x].value
                            /\ ~log[j].src.map
                /\ ImportsDisabled /\ x \notin WrittenKeys =>
                      /\ x \in DOMAIN assets
                      /\ assets[x] = before.assets[x]
                      /\ Count(chunks[c], x) = Count(before.chunks[c], x)

C4_Witness ==
    /\ Returned /\ ImportsDisabled /\ ~Preserve
    /\ given.size.type = "number"
    /\ \E c \in DOMAIN before.chunks : \E x \in Stylesheets(c) :
          /\ NumParts(x) = 1 /\ Untouched(c, x) /\ x \notin WrittenKeys
          /\ EventsOf(c, x) # {}
          /\ x \in DOMAIN assets /\ assets[x] = before.assets[x]
    /\ \E j \in DOMAIN log : log[j].op = "remove"

----------------------------------------------------------------------------
(* C5 *)

\* C5: with imports false (or omitted), at every point of the run, no
\* aggregation artifact is registered: every write into the asset table is a
\* split part under its own full path, every asset is the one the build
\* registered or such a part, no asset's text is a generated import list,
\* and every name of a chunk's file list was there before the call or is
\* the full path of a part registered for that chunk.
C5_NoAggregationWhenDisabled ==
    ImportsDisabled =>
        /\ \A i \in DOMAIN log :
              /\ log[i].op # "imports"
              /\ log[i].op = "part" =>
                    log[i].key = log[i].src.fullname /\ log[i].src.name # <<>>
        /\ \A k \in DOMAIN assets :
              /\ ~IsImportList(assets[k].value)
              /\ \/ k \in DOMAIN before.assets /\ assets[k] = before.assets[k]
                 \/ assets[k].fullname = k /\ assets[k].name # <<>>
        /\ \A c \in DOMAIN chunks : \A name \in Range(chunks[c]) :
              \/ name \in Range(before.chunks[c])
              \/ \E i \in DOMAIN log :
                    /\ log[i].op = "part" /\ log[i].chunk = c
                    /\ log[i].src.fullname = name

C5_Witness ==
    /\ Returned /\ given.imports = JSBool(FALSE)
    /\ \E i \in DOMAIN log : log[i].op = "part"
    /\ DOMAIN assets # DOMAIN before.assets

----------------------------------------------------------------------------
(* C6 *)

\* the public-URL-base: './' when unset, one trailing slash dropped
ExpectedBase ==
    LET pp == IF outputPublicPath = <<>> THEN <<".", "/">> ELSE outputPublicPath
    IN  IF pp[Len(pp)] = "/" THEN SubSeq(pp, 1, Len(pp) - 1) ELSE pp

ExpectedStatement(part) ==
    IF ExpectedBase # <<>> /\ ExpectedBase[1] = "."
    THEN <<"@import \"", ".", "/">> \o part.name \o <<"\";">>
    ELSE <<"@import \"">> \o ExpectedBase \o <<"/">> \o part.fullname \o <<"\";">>

\* C6: once the aggregation content of an entry that split into N > 1 parts
\* is built, it is exactly N statements, the i-th being
\* @import "./<name of part i>"; when the public-URL-base starts with '.',
\* and @import "<base>/<full path of part i>"; otherwise; under the default
\* part-name template the i-th statement names part number i.
C6_ImportListContent ==
    pc \in {"remove", "imports"} /\ Len(entries[ei].chunks) > 1 =>
        LET parts == entries[ei].chunks
            lines == importsFile.value
        IN  /\ Len(lines) = Len(parts)
            /\ \A i \in 1..Len(parts) :
                  /\ lines[i] = ExpectedStatement(parts[i])
                  /\ given.filename = JSUndefined =>
                        SubSeq(lines[i], Len(lines[i]) - 4, Len(lines[i]))
                            = <<"-", ToString(i), ".", "css", "\";">>

C6_Witness ==
    /\ pc = "imports"
    /\ Len(entries[ei].chunks) > 1
    /\ outputPublicPath # <<>>
    /\ entries[ei].dirname # <<".">>
    /\ Len(importsFile.value) = Len(entries[ei].chunks)

----------------------------------------------------------------------------
(* C7 *)

\* C7: the constructor throws exactly when typeof imports is neither
\* 'string' nor 'boolean' (an omitted imports defaults to false); when it
\* throws no option object exists, no hook is registered and the asset
\* table and the file lists are as they were.
C7_BadImportsThrowsAtConstruction ==
    pc # "new" =>
        IF given.imports.type \in {"string", "boolean", "undefined"}
        THEN pc # "threw" /\ options # NoOptions
        ELSE /\ pc = "threw"
             /\ options = NoOptions
             /\ hook = "none"
             /\ assets = before.assets
             /\ chunks = before.chunks
             /\ log = <<>>
             /\ doneCalls = 0

C7_Witness == pc = "threw" /\ given.imports = JSFunction

----------------------------------------------------------------------------
(* C8 *)

\* C8 as stated, between two chunks and at the end of the call, under the
\* default part-name template: every name in every chunk's file list is a
\* key of the asset table.
C8_NoDanglingReference ==
    pc \in {"chunk", "returned", "crashed"} /\ given.filename = JSUndefined =>
        \A c \in DOMAIN chunks : \A i \in DOMAIN chunks[c] :
            chunks[c][i] \in DOMAIN assets

----------------------------------------------------------------------------
(* C9 *)

\* C9 as stated: every invocation of chunksMapping ends with done called
\* exactly once; done is never called twice, is called only when all chunks
\* are processed, and the writes happen in chunk order.
C9_DoneExactlyOnce ==
    /\ doneCalls <= 1
    /\ doneCalls = 1 => pc = "returned" /\ ci > Len(chunks)
    /\ \A i, j \in DOMAIN log : i < j => log[i].chunk <= log[j].chunk
    /\ pc \in {"returned", "crashed"} => doneCalls = 1

----------------------------------------------------------------------------
(* C10 *)

NonStylesheets(files) == SelectSeq(files, LAMBDA name : ~isCSS(name))

IsPrefix(s, t) == Len(s) <= Len(t) /\ SubSeq(t, 1, Len(s)) = s

\* C10: whenever a step removes the original from a chunk's file list
\* (N > 1 and preserve falsy), the list holds an occurrence of the
\* original's name and the step removes exactly one such occurrence and
\* nothing else; and no step changes the order of the non-stylesheet names
\* of a file list or drops one of them.
C10_SpliceRemovesTheOriginal ==
    [][ /\ \A c \in DOMAIN chunks :
              IsPrefix(NonStylesheets(chunks[c]), NonStylesheets(chunks'[c]))
        /\ pc = "remove" /\ Len(entries[ei].chunks) > 1 /\ ~Preserve =>
              /\ \E k \in DOMAIN chunks[ci] :
                    /\ chunks[ci][k] = entries[ei].file
                    /\ chunks'[ci] = SubSeq(chunks[ci], 1, k - 1)
                                       \o SubSeq(chunks[ci], k + 1, Len(chunks[ci]))
              /\ \A c \in DOMAIN chunks : c # ci => chunks'[c] = chunks[c]
      ]_vars

C10_Witness ==
    /\ pc = "imports"
    /\ log # <<>> /\ log[Len(log)].op = "remove"
    /\ Len(before.chunks[ci]) >= 2
    /\ ~isCSS(before.chunks[ci][Len(before.chunks[ci])])
    /\ ~isCSS(chunks[ci][1])

====
